---- MODULE Spec2Model ----
(***************************************************************************)
(* Radiation budget diagnostics (rad_budget.py, cre.py, global_mean.py).   *)
(*                                                                         *)
(* Numbers are fixed point: fluxes and fields are integers (W/m2),         *)
(* latitudes are integer degrees, radians are in units of 1e-4 rad and     *)
(* cosines in units of 1e-3.  A quotient of two numbers is kept as a       *)
(* reduced fraction, so equality of quotients is equality of records.      *)
(* A Python dictionary is a function whose DOMAIN is its key set; a call   *)
(* ends in an outcome [exc, val]: exc = "none" and the returned value, or  *)
(* the name of the exception that left the call.                           *)
(***************************************************************************)
EXTENDS Integers, Sequences, FiniteSets, TLC

VARIABLES data_all_sky, data_clear_sky, self, ret, lat, data, gm, gm_rev

vars == <<data_all_sky, data_clear_sky, self, ret, lat, data, gm, gm_rev>>

(* ------------------------------ bounds --------------------------------- *)

\* longest latitude array handed to calc_global_mean on its own
MaxLatLen == 3
\* largest value of a field handed to calc_global_mean on its own
MaxField == 2
\* number of latitudes of the zonal-mean flux fields
NLat == 2
\* largest change applied to one flux of the reference fluxes
MaxDelta == 2
\* largest precipitation term data['p']
MaxPrecip == 3

(* --------------------------- arithmetic -------------------------------- *)

Abs(x) == IF x < 0 THEN -x ELSE x

RECURSIVE Gcd(_, _)
Gcd(a, b) == IF b = 0 THEN a ELSE Gcd(b, a % b)

\* float64 division n / d of numpy scalars: a reduced fraction, and nan or
\* +-inf (with a RuntimeWarning, no exception) when d is zero
Divide(n, d) ==
    IF d = 0
    THEN IF n = 0 THEN [kind |-> "nan", num |-> 0, den |-> 0]
         ELSE IF n > 0 THEN [kind |-> "inf", num |-> 0, den |-> 0]
         ELSE [kind |-> "-inf", num |-> 0, den |-> 0]
    ELSE LET g == Gcd(Abs(n), Abs(d))
             s == IF d < 0 THEN -1 ELSE 1
         IN  [kind |-> "finite", num |-> s * (n \div g), den |-> s * (d \div g)]

\* elementwise operations of numpy arrays of one shape
VAdd(a, b) == [i \in 1..Len(a) |-> a[i] + b[i]]
VSub(a, b) == [i \in 1..Len(a) |-> a[i] - b[i]]
VMul(a, b) == [i \in 1..Len(a) |-> a[i] * b[i]]
VNeg(a) == [i \in 1..Len(a) |-> -a[i]]

RECURSIVE SumSeq(_)
SumSeq(s) == IF s = <<>> THEN 0 ELSE s[1] + SumSeq(Tail(s))

Reverse(s) == [i \in 1..Len(s) |-> s[Len(s) + 1 - i]]

(* ---------------------------- global mean ------------------------------ *)

\* the latitudes (degrees) the grids are drawn from
Lats == {-60, -30, 0, 30, 60}

\* np.deg2rad / np.radians: degrees * pi / 180, in 1e-4 rad (pi = 3.1416)
deg2rad(l) == [i \in 1..Len(l) |-> (l[i] * 31416) \div 180]

\* cos of an angle in 1e-4 rad, in 1e-3
CosRad(r) ==
    CASE r = 0 -> 1000
      [] Abs(r) = 5236 -> 866
      [] Abs(r) = 10472 -> 500

\* np.cos of an array
cos(r) == [i \in 1..Len(r) |-> CosRad(r[i])]

\* trapz with the left end of each interval in place of the mean of its two
\* ends: sum(diff(x) * y[:-1])
trapz_left(y, x) ==
    SumSeq([i \in 1..(Len(x) - 1) |-> ((x[i + 1] - x[i]) * (2 * y[i])) \div 2])

\* scipy.integrate.trapz(y, x) == sum(diff(x) * (y[1:] + y[:-1]) / 2.0);
\* 0.0 for fewer than two points
trapz(y, x) ==
    SumSeq([i \in 1..(Len(x) - 1) |-> ((x[i + 1] - x[i]) * (y[i + 1] + y[i])) \div 2])

\* np.average(data, weights=cos(radians(lat)), axis=lat_axis)
area_weight_avg(d, l) ==
    LET weights == cos(deg2rad(l))
    IN  IF SumSeq(weights) = 0
        THEN [exc |-> "ZeroDivisionError", val |-> <<>>]
        ELSE [exc |-> "none", val |-> Divide(SumSeq(VMul(d, weights)), SumSeq(weights))]

\* calc_global_mean normalised by the sum of the weights, as area_weight_avg
\* does, in place of their integral
calc_global_mean_sum(d, l) ==
    LET lat_rad == deg2rad(l)
        weights == cos(lat_rad)
        area_weight == SumSeq(weights)
        global_integral == trapz(VMul(d, weights), lat_rad)
    IN  Divide(global_integral, area_weight)

calc_global_mean(d, l) ==
    LET lat_rad == deg2rad(l)
        weights == cos(lat_rad)
        area_weight == trapz(weights, lat_rad)
        global_integral == trapz(VMul(d, weights), lat_rad)
    IN  Divide(global_integral, area_weight)

NoCall == [kind |-> "nocall", num |-> 0, den |-> 0]


(* ----------------------- Python values and calls ----------------------- *)

\* the value None, and a numpy array, as stored in an attribute
None == [type |-> "NoneType"]
Array(v) == [type |-> "ndarray", v |-> v]

Return(v) == [exc |-> "none", val |-> v]
Raise(e) == [exc |-> e, val |-> <<>>]

\* d[k] for every k of ks is defined
HasKeys(d, ks) == ks \subseteq DOMAIN d

\* what a name at module level resolves to when a function body is run
ModuleGlobals ==
    {"np", "pdb", "integrate", "area_weight_avg", "area_weight_data",
     "calc_global_mean", "EnergyBudget"}

(* ------------------------- class EnergyBudget -------------------------- *)

flux_names == {"lwds", "lwut", "lwus", "swus", "swut", "swds", "swdt"}

compute_energy_budget(d) ==
    IF ~HasKeys(d, {"lwut", "lwds", "lwus"}) THEN Raise("KeyError")
    ELSE IF ~HasKeys(d, {"swdt", "swut", "swds", "swus"}) THEN Raise("KeyError")
    ELSE IF ~HasKeys(d, {"lat"}) THEN Raise("KeyError")
    ELSE
    LET lwc == VAdd(d["lwut"], VSub(d["lwds"], d["lwus"]))
        swa == VSub(VSub(d["swdt"], d["swut"]), VSub(d["swds"], d["swus"]))
        avg_lwut == area_weight_avg(d["lwut"], d["lat"])
        avg_swdt == area_weight_avg(d["swdt"], d["lat"])
        avg_swut == area_weight_avg(d["swut"], d["lat"])
    IN  IF avg_lwut.exc # "none" THEN avg_lwut
        ELSE IF avg_swdt.exc # "none" THEN avg_swdt
        ELSE IF avg_swut.exc # "none" THEN avg_swut
        ELSE IF ~HasKeys(d, {"p", "sh"}) THEN Raise("KeyError")
        ELSE Return([lwc |-> lwc, swa |-> swa, pl |-> d["p"], sh |-> d["sh"]])

\* compute_cre with aswcre = swcre + swcre_surf
EnergyBudget_compute_cre_plus(a, c) ==
    IF ~(HasKeys(c, {"lwut", "swut"}) /\ HasKeys(a, {"lwut", "swut"}))
    THEN Raise("KeyError")
    ELSE IF ~(HasKeys(a, {"lwds", "lwus", "swds", "swus"})
              /\ HasKeys(c, {"lwds", "lwus", "swds", "swus"}))
    THEN Raise("KeyError")
    ELSE
    LET lwcre == VSub(c["lwut"], a["lwut"])
        swcre == VSub(c["swut"], a["swut"])
        cre == VAdd(lwcre, swcre)
        lwcre_surf == VAdd(VSub(VSub(a["lwds"], c["lwds"]), a["lwus"]), c["lwus"])
        swcre_surf == VAdd(VSub(VSub(a["swds"], c["swds"]), a["swus"]), c["swus"])
        cre_surf == VAdd(lwcre_surf, swcre_surf)
        alwcre == VSub(lwcre, lwcre_surf)
        aswcre == VAdd(swcre, swcre_surf)
        acre == VAdd(alwcre, aswcre)
    IN  Return([lwcre |-> lwcre, swcre |-> swcre, cre |-> cre,
                lwcre_surf |-> lwcre_surf, swcre_surf |-> swcre_surf,
                cre_surf |-> cre_surf,
                alwcre |-> alwcre, aswcre |-> aswcre, acre |-> acre])

EnergyBudget_compute_cre(a, c) ==
    IF ~(HasKeys(c, {"lwut", "swut"}) /\ HasKeys(a, {"lwut", "swut"}))
    THEN Raise("KeyError")
    ELSE IF ~(HasKeys(a, {"lwds", "lwus", "swds", "swus"})
              /\ HasKeys(c, {"lwds", "lwus", "swds", "swus"}))
    THEN Raise("KeyError")
    ELSE
    LET lwcre == VSub(c["lwut"], a["lwut"])
        swcre == VSub(c["swut"], a["swut"])
        cre == VAdd(lwcre, swcre)
        lwcre_surf == VAdd(VSub(VSub(a["lwds"], c["lwds"]), a["lwus"]), c["lwus"])
        swcre_surf == VAdd(VSub(VSub(a["swds"], c["swds"]), a["swus"]), c["swus"])
        cre_surf == VAdd(lwcre_surf, swcre_surf)
        alwcre == VSub(lwcre, lwcre_surf)
        aswcre == VSub(swcre, swcre_surf)
        acre == VAdd(alwcre, aswcre)
    IN  Return([lwcre |-> lwcre, swcre |-> swcre, cre |-> cre,
                lwcre_surf |-> lwcre_surf, swcre_surf |-> swcre_surf,
                cre_surf |-> cre_surf,
                alwcre |-> alwcre, aswcre |-> aswcre, acre |-> acre])

\* atm_cs_forcing with the all-sky swds in the clear-sky surface term
atm_cs_forcing_swapped(a, c) ==
    IF ~(HasKeys(a, {"swdt", "swds"})
         /\ HasKeys(c, {"swut", "lwds", "lwus", "swds", "swus", "lwut"}))
    THEN Raise("KeyError")
    ELSE
    LET sw_crf_toa_cs == VSub(a["swdt"], c["swut"])
        lw_crf_surf_cs == VSub(c["lwds"], c["lwus"])
        sw_crf_surf_cs == VSub(a["swds"], c["swus"])
        lw_crf_toa_cs == VNeg(c["lwut"])
    IN  Return([sw_toa |-> sw_crf_toa_cs, lw_toa |-> lw_crf_toa_cs,
                sw_surf |-> sw_crf_surf_cs, lw_surf |-> lw_crf_surf_cs])

atm_cs_forcing(a, c) ==
    IF ~(HasKeys(a, {"swdt"})
         /\ HasKeys(c, {"swut", "lwds", "lwus", "swds", "swus", "lwut"}))
    THEN Raise("KeyError")
    ELSE
    LET sw_crf_toa_cs == VSub(a["swdt"], c["swut"])
        lw_crf_surf_cs == VSub(c["lwds"], c["lwus"])
        sw_crf_surf_cs == VSub(c["swds"], c["swus"])
        lw_crf_toa_cs == VNeg(c["lwut"])
    IN  Return([sw_toa |-> sw_crf_toa_cs, lw_toa |-> lw_crf_toa_cs,
                sw_surf |-> sw_crf_surf_cs, lw_surf |-> lw_crf_surf_cs])

\* the names bound in the body of total_atmos_forcing when line n is run
total_atmos_forcing_locals(n) ==
    {"self", "data_all_sky", "data_clear_sky", "data_budget"}
    \cup (IF n > 186 THEN {"cre_output"} ELSE {})
    \cup (IF n > 189 THEN {"cs_forcing"} ELSE {})

Resolves(name, n) == name \in total_atmos_forcing_locals(n) \cup ModuleGlobals

total_atmos_forcing(a, c, b) ==
    LET cre_output == EnergyBudget_compute_cre(a, c)
    IN  IF cre_output.exc # "none" THEN cre_output
        \* line 189: atm_cs_forcing is a method, looked up as a global name
        ELSE IF ~Resolves("atm_cs_forcing", 189) THEN Raise("NameError")
        ELSE
        LET cs_forcing == atm_cs_forcing(a, c)
        IN  IF cs_forcing.exc # "none" THEN cs_forcing
            \* line 192: output is bound nowhere
            ELSE IF ~Resolves("output", 192) THEN Raise("NameError")
            \* line 193: cs_forcing has the keys sw_toa, lw_toa, sw_surf, lw_surf
            ELSE IF ~HasKeys(cs_forcing.val, {"swcre", "swcre_surf"}) THEN Raise("KeyError")
            ELSE IF ~HasKeys(cs_forcing.val, {"lwcre", "lwcre_surf"}) THEN Raise("KeyError")
            \* line 203: data is bound nowhere
            ELSE IF ~Resolves("data", 203) THEN Raise("NameError")
            ELSE Raise("unreachable")

EnergyBudget_global_avg_cre(cre, l) ==
    Return([var \in DOMAIN cre |-> calc_global_mean(cre[var], l)])

global_avg_cre_comp(a, c) ==
    LET cre_output == EnergyBudget_compute_cre(a, c)
    IN  IF cre_output.exc # "none" THEN cre_output
        ELSE IF ~HasKeys(a, {"lat"}) THEN Raise("KeyError")
        ELSE EnergyBudget_global_avg_cre(cre_output.val, a["lat"])

global_atmos_budget(budget, l) ==
    IF ~HasKeys(budget, {"pl", "lwc", "swa", "sh", "net"}) THEN Raise("KeyError")
    ELSE Return([var \in {"pl", "lwc", "swa", "sh", "net"} |->
                    calc_global_mean(budget[var], l)])

global_avg_flux_comp(d, l) ==
    IF ~HasKeys(d, {"lwut", "lwus", "lwds", "swut", "swdt", "swus", "swds"})
    THEN Raise("KeyError")
    ELSE Return([var \in {"lwut", "lwus", "lwds", "swut", "swdt", "swus", "swds"} |->
                    calc_global_mean(d[var], l)])


(* ------------------ class ComputeCloudRadiativeEffect ------------------ *)

var_list ==
    {"cre", "lwcre", "swcre", "cre_surf", "lwcre_surf", "swcre_surf",
     "acre", "alwcre", "aswcre"}

\* ComputeCloudRadiativeEffect(data): the attributes after construction
CRE_init(d) ==
    [data |-> d,
     lwcre |-> None, swcre |-> None, cre |-> None,
     lwcre_surf |-> None, swcre_surf |-> None, cre_surf |-> None,
     alwcre |-> None, aswcre |-> None, acre |-> None]

\* one assignment self.attr = value after the state st: the keys of self.data it
\* reads must be there, or KeyError leaves the method with the attributes as
\* they are; the value is computed only when they are
Assign(st, keys, attr, value) ==
    IF st.exc # "none" THEN st
    ELSE IF ~HasKeys(st.self.data, keys) THEN [self |-> st.self, exc |-> "KeyError"]
    ELSE [self |-> [st.self EXCEPT ![attr] = Array(value)], exc |-> "none"]

ComputeCloudRadiativeEffect_compute_cre(s) ==
    LET d == s.data
        s0 == [self |-> s, exc |-> "none"]
        s1 == Assign(s0, {"lwut_cs", "lwut"}, "lwcre", VSub(d["lwut_cs"], d["lwut"]))
        s2 == Assign(s1, {"swut_cs", "swut"}, "swcre", VSub(d["swut_cs"], d["swut"]))
        s3 == Assign(s2, {}, "cre", VAdd(s2.self.lwcre.v, s2.self.swcre.v))
        s4 == Assign(s3, {"lwds", "lwds_cs", "lwus", "lwus_cs"}, "lwcre_surf",
                     VAdd(VSub(VSub(d["lwds"], d["lwds_cs"]), d["lwus"]), d["lwus_cs"]))
        s5 == Assign(s4, {"swds", "swds_cs", "swus", "swus_cs"}, "swcre_surf",
                     VAdd(VSub(VSub(d["swds"], d["swds_cs"]), d["swus"]), d["swus_cs"]))
        s6 == Assign(s5, {}, "cre_surf", VAdd(s5.self.lwcre_surf.v, s5.self.swcre_surf.v))
        s7 == Assign(s6, {}, "alwcre", VSub(s6.self.lwcre.v, s6.self.lwcre_surf.v))
        s8 == Assign(s7, {}, "aswcre", VSub(s7.self.swcre.v, s7.self.swcre_surf.v))
    IN  Assign(s8, {}, "acre", VAdd(s8.self.alwcre.v, s8.self.aswcre.v))

\* self.cre holds None or an array; only a dict has keys()
ComputeCloudRadiativeEffect_global_avg_cre(s, l) ==
    IF s.cre.type # "dict" THEN Raise("AttributeError")
    ELSE Return([var \in DOMAIN s.cre.v |-> calc_global_mean(s.cre.v[var], l)])

(* ------------------------------ inputs --------------------------------- *)

\* a field with the same value at every latitude
Field(v) == [i \in 1..NLat |-> v]

\* the zonal-mean latitude grid, south to north
LatGrid == [i \in 1..NLat |-> -60 + 30 * (i - 1)]

BaseAllSky ==
    [lwut |-> 24, lwds |-> 35, lwus |-> 40,
     swut |-> 10, swdt |-> 34, swds |-> 19, swus |-> 3]

BaseClearSky ==
    [lwut |-> 27, lwds |-> 32, lwus |-> 40,
     swut |-> 5, swdt |-> 34, swds |-> 25, swus |-> 4]

NoChange == [sky |-> "none", key |-> "none", idx |-> 0, delta |-> 0]

\* no change, or one flux of one set raised at one latitude
Changes ==
    {NoChange} \cup
    [sky : {"all", "clear"}, key : flux_names, idx : 1..NLat, delta : 1..MaxDelta]

Fluxes(base, sky, ch) ==
    [k \in flux_names |->
        [i \in 1..NLat |->
            base[k] + (IF ch.sky = sky /\ ch.key = k /\ ch.idx = i THEN ch.delta ELSE 0)]]

\* the dictionary d with the entries of e added
Update(d, e) ==
    [k \in DOMAIN d \cup DOMAIN e |-> IF k \in DOMAIN e THEN e[k] ELSE d[k]]

\* the dictionary d without the key k
Without(d, k) == [j \in DOMAIN d \ {k} |-> d[j]]

\* the name of the clear-sky flux k in the single dictionary of cre.py
Cs ==
    [lwut |-> "lwut_cs", lwds |-> "lwds_cs", lwus |-> "lwus_cs", swut |-> "swut_cs",
     swdt |-> "swdt_cs", swds |-> "swds_cs", swus |-> "swus_cs"]

\* the all-sky and clear-sky fluxes in one dictionary
Combined(a, c) ==
    [k \in (DOMAIN a \cap flux_names) \cup {Cs[j] : j \in DOMAIN c \cap flux_names} |->
        IF k \in flux_names THEN a[k]
        ELSE c[CHOOSE j \in DOMAIN c \cap flux_names : Cs[j] = k]]

NoRet == [op |-> "none", exc |-> "none", val |-> <<>>]

InitInputs(a, c) ==
    /\ data_all_sky = a
    /\ data_clear_sky = c
    /\ self = CRE_init(Combined(a, c))
    /\ ret = NoRet

\* the flux dictionaries: every key there and one flux changed, or one key
\* missing; the all-sky one also carries lat, p and sh (and lh, or not)
Init ==
    /\ \E ch \in Changes, p \in 0..MaxPrecip, south \in BOOLEAN,
          missing \in {"none"} \cup flux_names \cup {"lat", "p", "sh"},
          missing_cs \in {"none"} \cup flux_names, lh \in BOOLEAN :
          /\ (missing # "none" \/ missing_cs # "none" \/ lh) => (ch = NoChange /\ p = MaxPrecip)
          /\ missing # "none" => missing_cs = "none" /\ ~lh
          /\ missing_cs # "none" => ~lh
          /\ LET a0 == Update(Fluxes(BaseAllSky, "all", ch),
                              [lat |-> IF south THEN LatGrid ELSE Reverse(LatGrid),
                               p |-> Field(p), sh |-> Field(2)])
                 a1 == IF lh THEN Update(a0, [lh |-> Field(p + 1)]) ELSE a0
                 c0 == Fluxes(BaseClearSky, "clear", ch)
             IN  InitInputs(IF missing = "none" THEN a1 ELSE Without(a1, missing),
                            IF missing_cs = "none" THEN c0 ELSE Without(c0, missing_cs))
    /\ lat = <<>>
    /\ data = <<>>
    /\ gm = NoCall
    /\ gm_rev = NoCall

(* ------------------------------- calls --------------------------------- *)

Outcome(op, r) == [op |-> op, exc |-> r.exc, val |-> r.val]

EnergyBudgetUnchanged == UNCHANGED <<data_all_sky, data_clear_sky, self, lat, data, gm, gm_rev>>

Call_compute_energy_budget ==
    /\ ret' = Outcome("compute_energy_budget", compute_energy_budget(data_all_sky))
    /\ EnergyBudgetUnchanged

Call_compute_cre ==
    /\ ret' = Outcome("compute_cre", EnergyBudget_compute_cre(data_all_sky, data_clear_sky))
    /\ EnergyBudgetUnchanged

Call_total_atmos_forcing ==
    /\ ret' = Outcome("total_atmos_forcing",
                      total_atmos_forcing(data_all_sky, data_clear_sky, data_all_sky))
    /\ EnergyBudgetUnchanged

Call_atm_cs_forcing ==
    /\ ret' = Outcome("atm_cs_forcing", atm_cs_forcing(data_all_sky, data_clear_sky))
    /\ EnergyBudgetUnchanged

Call_global_avg_cre_comp ==
    /\ ret' = Outcome("global_avg_cre_comp", global_avg_cre_comp(data_all_sky, data_clear_sky))
    /\ EnergyBudgetUnchanged

\* the budget handed over is the one compute_energy_budget has just returned
Call_global_atmos_budget ==
    /\ ret.op = "compute_energy_budget"
    /\ ret.exc = "none"
    /\ ret' = Outcome("global_atmos_budget", global_atmos_budget(ret.val, data_all_sky["lat"]))
    /\ EnergyBudgetUnchanged

Call_global_avg_flux_comp ==
    /\ "lat" \in DOMAIN data_all_sky
    /\ ret' = Outcome("global_avg_flux_comp",
                      global_avg_flux_comp(data_all_sky, data_all_sky["lat"]))
    /\ EnergyBudgetUnchanged

Call_CRE_compute_cre ==
    /\ LET r == ComputeCloudRadiativeEffect_compute_cre(self)
       IN  /\ self' = r.self
           /\ ret' = [op |-> "CRE.compute_cre", exc |-> r.exc, val |-> <<>>]
    /\ UNCHANGED <<data_all_sky, data_clear_sky, lat, data, gm, gm_rev>>

Call_CRE_global_avg_cre ==
    /\ "lat" \in DOMAIN data_all_sky
    /\ ret' = Outcome("CRE.global_avg_cre",
                      ComputeCloudRadiativeEffect_global_avg_cre(self, data_all_sky["lat"]))
    /\ EnergyBudgetUnchanged

Next ==
    \/ Call_compute_energy_budget
    \/ Call_compute_cre
    \/ Call_total_atmos_forcing
    \/ Call_atm_cs_forcing
    \/ Call_global_avg_cre_comp
    \/ Call_global_atmos_budget
    \/ Call_global_avg_flux_comp
    \/ Call_CRE_compute_cre
    \/ Call_CRE_global_avg_cre

Spec == Init /\ [][Next]_vars

(* ----------------------- calc_global_mean on its own ------------------- *)

\* arrays of n latitudes that do not turn back (south to north or north to south)
Monotone(l) ==
    \/ \A i \in 1..(Len(l) - 1) : l[i] <= l[i + 1]
    \/ \A i \in 1..(Len(l) - 1) : l[i] >= l[i + 1]

InitMean ==
    /\ InitInputs(Update(Fluxes(BaseAllSky, "all", NoChange),
                         [lat |-> LatGrid, p |-> Field(0), sh |-> Field(2)]),
                  Fluxes(BaseClearSky, "clear", NoChange))
    /\ \E n \in 1..MaxLatLen :
          /\ lat \in [1..n -> Lats]
          /\ Monotone(lat)
          /\ data \in [1..n -> 0..MaxField]
    /\ gm = NoCall
    /\ gm_rev = NoCall

Call_calc_global_mean ==
    /\ gm' = calc_global_mean(data, lat)
    /\ UNCHANGED <<data_all_sky, data_clear_sky, self, ret, lat, data, gm_rev>>

\* the same call with the field and the latitudes both reversed
Call_calc_global_mean_reversed ==
    /\ gm_rev' = calc_global_mean(Reverse(data), Reverse(lat))
    /\ UNCHANGED <<data_all_sky, data_clear_sky, self, ret, lat, data, gm>>

NextMean ==
    \/ Call_calc_global_mean
    \/ Call_calc_global_mean_reversed

SpecMean == InitMean /\ [][NextMean]_vars


(* ------------------------------ claims --------------------------------- *)

\* every flux of flux_names is in the dictionary
Complete(d) == flux_names \subseteq DOMAIN d

\* every flux compute_cre reads is in both dictionaries
CreInputsThere ==
    /\ (flux_names \ {"swdt"}) \subseteq DOMAIN data_all_sky
    /\ (flux_names \ {"swdt"}) \subseteq DOMAIN data_clear_sky

\* the nine diagnostics r satisfy the sum identities of the cloud radiative effect
Identities(r) ==
    /\ r.cre = VAdd(r.lwcre, r.swcre)
    /\ r.cre_surf = VAdd(r.lwcre_surf, r.swcre_surf)
    /\ r.acre = VAdd(r.alwcre, r.aswcre)
    /\ r.acre = VSub(r.cre, r.cre_surf)

\* the nine attributes of the object, as a dictionary of arrays
Stored(s) == [var \in var_list |-> s[var].v]

\* C1: whenever compute_cre has returned, in either class, cre = lwcre + swcre,
\* cre_surf = lwcre_surf + swcre_surf and acre = alwcre + aswcre = cre - cre_surf
C1_CreIdentities ==
    /\ (ret.op = "compute_cre" /\ ret.exc = "none") => Identities(ret.val)
    /\ (ret.op = "CRE.compute_cre" /\ ret.exc = "none") => Identities(Stored(self))

\* C1 witness: EnergyBudget.compute_cre has returned a non-zero atmospheric CRE
\* for fluxes that differ from the reference, and the object of cre.py holds its own
C1_Witness ==
    /\ ret.op = "compute_cre"
    /\ ret.exc = "none"
    /\ \E i \in 1..NLat : ret.val.acre[i] # 0 /\ ret.val.cre_surf[i] # 0
    /\ data_all_sky # Update(data_all_sky, Fluxes(BaseAllSky, "all", NoChange))
    /\ self.acre.type = "ndarray"
    /\ self.acre.v = ret.val.acre

\* C2: for complete inputs total_atmos_forcing returns a total equal to the net
\* of the budget path, -lwc + swa + lh + sh (stated as claimed; the code raises)
C2_ForcingEqualsBudgetNet ==
    (ret.op = "total_atmos_forcing" /\ Complete(data_all_sky) /\ Complete(data_clear_sky)
     /\ HasKeys(data_all_sky, {"lat", "p", "sh"}))
    => /\ ret.exc = "none"
       /\ "total" \in DOMAIN ret.val
       /\ LET b == compute_energy_budget(data_all_sky).val
          IN  ret.val["total"] = VAdd(VAdd(VAdd(VNeg(b.lwc), b.swa), b.pl), b.sh)

\* C3: the result of compute_energy_budget holds lwc, swa and net = -lwc + swa + sh + lh,
\* and global_atmos_budget finds every key it reduces (stated as claimed)
C3_BudgetHasNet ==
    /\ (ret.op = "compute_energy_budget" /\ ret.exc = "none")
       => /\ HasKeys(ret.val, {"lwc", "swa", "net"})
          /\ ret.val.lwc = VAdd(data_all_sky["lwut"],
                                VSub(data_all_sky["lwds"], data_all_sky["lwus"]))
          /\ ret.val.swa = VSub(VSub(data_all_sky["swdt"], data_all_sky["swut"]),
                                VSub(data_all_sky["swds"], data_all_sky["swus"]))
          /\ ret.val["net"] = VAdd(VAdd(VAdd(VNeg(ret.val.lwc), ret.val.swa),
                                        data_all_sky["sh"]), data_all_sky["p"])
    /\ ret.op = "global_atmos_budget" => ret.exc = "none"

\* the field is the constant c
Constant(f, c) == \A i \in 1..Len(f) : f[i] = c

\* the trapezoidal integral of the cosine weights over the latitudes
AreaWeight(l) == trapz(cos(deg2rad(l)), deg2rad(l))

\* at least two latitudes, in one direction, with a non-zero integral of the weights
ValidLat(l) == Len(l) >= 2 /\ Monotone(l) /\ AreaWeight(l) # 0

\* C4: the global mean of a constant field c over a valid latitude array is c
C4_ConstantField ==
    \A c \in 0..MaxField :
        (gm # NoCall /\ ValidLat(lat) /\ Constant(data, c))
        => gm = [kind |-> "finite", num |-> c, den |-> 1]

\* C4 witness: the mean of a non-zero constant over three unevenly spaced
\* latitudes has been computed
C4_Witness ==
    /\ gm # NoCall
    /\ Len(lat) = 3
    /\ ValidLat(lat)
    /\ lat[2] - lat[1] # lat[3] - lat[2]
    /\ Constant(data, 2)
    /\ gm.num = 2

\* C5: over a valid latitude array the global mean of the reversed field over the
\* reversed latitudes is the global mean of the field over the latitudes
C5_ReversalInvariant ==
    (gm # NoCall /\ gm_rev # NoCall /\ ValidLat(lat)) => gm = gm_rev

\* C5 witness: both means have been computed for a field that is not its own
\* reverse, and the mean is a proper fraction
C5_Witness ==
    /\ gm # NoCall
    /\ gm_rev # NoCall
    /\ ValidLat(lat)
    /\ Len(lat) = 3
    /\ data # Reverse(data)
    /\ lat # Reverse(lat)
    /\ gm.kind = "finite"
    /\ gm.den # 1

\* C6: with a required key missing compute_cre fails and leaves no partial
\* result: none of the nine diagnostics is returned or stored (stated as claimed)
C6_NoPartialResult ==
    /\ (ret.op = "compute_cre" /\ ~CreInputsThere)
       => ret.exc \in {"MissingField", "KeyError"} /\ ret.val = <<>>
    /\ (ret.op = "CRE.compute_cre" /\ ~CreInputsThere)
       => /\ ret.exc \in {"MissingField", "KeyError"}
          /\ \A var \in var_list : self[var] = None

\* the latent heat in W/m2 of a rate in mm/day: (rate / 86400) * L
Heat(rate, L) == [i \in 1..Len(rate) |-> (rate[i] * L) \div 86400]

\* the latent-heat term of the design: lh, or from rain and snow, or from
\* precipitation and snow, or from precipitation alone (the key p of the code)
LatentHeat(d) ==
    IF "lh" \in DOMAIN d THEN d["lh"]
    ELSE IF {"rain", "snow"} \subseteq DOMAIN d
    THEN VAdd(Heat(d["rain"], 2500000), Heat(d["snow"], 2834000))
    ELSE IF {"p", "snow"} \subseteq DOMAIN d
    THEN VAdd(Heat(d["p"], 2500000), Heat(d["snow"], 334000))
    ELSE Heat(d["p"], 2500000)

\* C7: the latent-heat term of the budget is lh when supplied, and otherwise the
\* precipitation rate converted to W/m2, never the rate itself (stated as claimed)
C7_LatentHeatConverted ==
    (ret.op = "compute_energy_budget" /\ ret.exc = "none")
    => ret.val.pl = LatentHeat(data_all_sky)

\* C8: calc_global_mean fails with DegenerateInput, and returns no value, for
\* fewer than two latitudes or a zero integral of the weights (stated as claimed)
C8_DegenerateInputFails ==
    (gm # NoCall /\ (Len(lat) < 2 \/ AreaWeight(lat) = 0)) => gm.kind = "DegenerateInput"

\* the global mean of each of the nine diagnostics of r
GlobalMeans(r, l) == [var \in var_list |-> calc_global_mean(r[var], l)]

\* C9: once compute_cre has completed on complete inputs, the global averaging of
\* either class returns the global mean of each of the nine diagnostics
\* (stated as claimed)
C9_GlobalAvgCre ==
    /\ (ret.op = "CRE.global_avg_cre" /\ self.acre # None
        /\ Complete(data_all_sky) /\ Complete(data_clear_sky))
       => /\ ret.exc = "none"
          /\ ret.val = GlobalMeans(Stored(self), data_all_sky["lat"])
    /\ (ret.op = "global_avg_cre_comp" /\ Complete(data_all_sky)
        /\ Complete(data_clear_sky) /\ "lat" \in DOMAIN data_all_sky)
       => /\ ret.exc = "none"
          /\ ret.val = GlobalMeans(EnergyBudget_compute_cre(data_all_sky, data_clear_sky).val,
                                   data_all_sky["lat"])

\* C10 as claimed: the clear-sky forcing is computed from the clear-sky fluxes alone
C10_ClearSkyOnly ==
    (ret.op = "atm_cs_forcing" /\ ret.exc = "none" /\ Complete(data_clear_sky))
    => ret.val = [sw_toa |-> VSub(data_clear_sky["swdt"], data_clear_sky["swut"]),
                  lw_toa |-> VNeg(data_clear_sky["lwut"]),
                  sw_surf |-> VSub(data_clear_sky["swds"], data_clear_sky["swus"]),
                  lw_surf |-> VSub(data_clear_sky["lwds"], data_clear_sky["lwus"])]

\* all-sky dictionaries that differ from a in the fluxes other than swdt
OtherAllSky(a) ==
    {Update(Fluxes(BaseAllSky, "all", ch), [swdt |-> a["swdt"]]) : ch \in Changes}
    \cup {Without(a, k) : k \in DOMAIN a \ {"swdt"}}

\* C10 amended: sw_toa is all_sky.swdt - clear_sky.swut, the other three terms are
\* clear-sky fluxes, and the result is the same for every all-sky set with this swdt
C10_ClearSkyExceptSwdt ==
    (ret.op = "atm_cs_forcing" /\ ret.exc = "none")
    => /\ ret.val = [sw_toa |-> VSub(data_all_sky["swdt"], data_clear_sky["swut"]),
                     lw_toa |-> VNeg(data_clear_sky["lwut"]),
                     sw_surf |-> VSub(data_clear_sky["swds"], data_clear_sky["swus"]),
                     lw_surf |-> VSub(data_clear_sky["lwds"], data_clear_sky["lwus"])]
       /\ \A a2 \in OtherAllSky(data_all_sky) :
              atm_cs_forcing(a2, data_clear_sky) = Return(ret.val)

\* C10 witness: the forcing has been returned for an all-sky swdt that is not the
\* clear-sky swdt
C10_Witness ==
    /\ ret.op = "atm_cs_forcing"
    /\ ret.exc = "none"
    /\ Complete(data_clear_sky)
    /\ data_all_sky["swdt"] # data_clear_sky["swdt"]
    /\ ret.val.sw_toa # VSub(data_clear_sky["swdt"], data_clear_sky["swut"])

====
